---- MODULE Spec2Model ----
(***************************************************************************)
(* Model of the backport action (src/src/backport.ts lines 1-296 and       *)
(* src/src/index.ts): the tag parser, the commit sequence extractor, the   *)
(* per-target executor backportOnce, the failure reporter and the          *)
(* orchestrator loop of backport, run from run().                          *)
(*                                                                         *)
(* A label and a branch name are sequences of tokens: " " is one space,    *)
(* every other token is a run of non-space characters.  Every external     *)
(* call (a git command, a host API request, a file operation) is one       *)
(* step whose outcome, success or a thrown error, is chosen by the         *)
(* environment.                                                            *)
(***************************************************************************)
EXTENDS Integers, Sequences, FiniteSets, TLC

VARIABLES
    payload,             \* context.payload: action, label, labels, merged, number
    pc,                  \* position of run()/backport()
    backportBaseToHead,  \* the mapping, as its entries in iteration order
    listed,              \* getCommits: commits.data, the answer of listCommits
    commits,             \* result of getCommits: commit urls
    started,             \* number of loop iterations started so far
    tpc,                 \* per target: position inside the loop body
    fetchOrder,          \* per target: commit indices in patch-fetch completion order
    patches,             \* per target: result of pMap(commits, mapCommits)
    next,                \* per target: index of the `for (const patch of patches)` loop
    err,                 \* per target: the error travelling to the caller
    result,              \* per target: how backportOnce returned
    patchFile,           \* content of the scratch file <repo>.patch
    branches,            \* local branches created in the clone
    log,                 \* every git command and host API call, in order
    failed               \* setFailed has been called

vars == <<payload, pc, backportBaseToHead, listed, commits, started, tpc, fetchOrder,
          patches, next, err, result, patchFile, branches, log, failed>>

(***************************************************************************)
(* Bounds                                                                  *)
(***************************************************************************)
MaxLabels == 2
MaxCommits == 2

SeqsUpTo(S, n) == UNION {[1..k -> S] : k \in 0..n}

Injective(s) == \A i, j \in 1..Len(s) : s[i] = s[j] => i = j

\* labels a pull request may carry
LabelPool ==
    { <<"backport", " ", "a">>,
      <<"backport", " ", "b", " ", "x">>,
      <<"backport", " ", "a", " ", "x">>,
      <<"bug">> }

PullNumbers == {42}
Actions == {"closed", "labeled", "opened"}

\* commits the host may list for the pull request: url and commit message
MergeMessage == <<"Merge branch '", "foo", "' into ", "bar">>
CommitPool ==
    { [url |-> "c1", message |-> <<"fix">>],
      [url |-> "c2", message |-> <<"feat">>],
      [url |-> "c3", message |-> MergeMessage] }

None == "none"
\* contents of the scratch file: no file, a truncated write, or a patch
Absent == <<"absent">>
Partial == <<"partial">>
\* the patch the host returns for a commit url
PatchOf(url) == <<"patch", url>>

(***************************************************************************)
(* Tag parser                                                              *)
(***************************************************************************)
NoSpace(s) == \A i \in 1..Len(s) : s[i] # " "

FirstSpace(s) ==
    IF NoSpace(s) THEN 0
    ELSE CHOOSE i \in 1..Len(s) : s[i] = " " /\ NoSpace(SubSeq(s, 1, i - 1))

\* labelRegExp.exec(labelName): <<>> for null, else <<base>> or <<base, head>>
labelRegExp(labelName) ==
    IF Len(labelName) < 3 \/ labelName[1] # "backport" \/ labelName[2] # " "
    THEN <<>>
    ELSE LET rest == SubSeq(labelName, 3, Len(labelName))
             k == FirstSpace(rest)
         IN IF k = 0 THEN <<rest>>
            ELSE LET base == SubSeq(rest, 1, k - 1)
                     head == SubSeq(rest, k + 1, Len(rest))
                 IN IF base # <<>> /\ head # <<>> /\ NoSpace(head)
                    THEN <<base, head>>
                    ELSE <<>>

getLabelNames_AllLabels(action, label, labels) ==
    IF action \in {"closed", "labeled"} THEN labels ELSE <<>>
getLabelNames(action, label, labels) ==
    CASE action = "closed" -> labels
      [] action = "labeled" -> <<label>>
      [] OTHER -> <<>>

HasBase(m, base) == \E i \in 1..Len(m) : m[i][1] = base

Put_KeepsFirst(m, base, head) ==
    IF HasBase(m, base) THEN m ELSE Append(m, <<base, head>>)
Put_AlwaysAppends(m, base, head) == Append(m, <<base, head>>)
\* { ...baseToHead, [base]: head }: an existing key keeps its position
Put(m, base, head) ==
    IF HasBase(m, base)
    THEN [i \in 1..Len(m) |-> IF m[i][1] = base THEN <<base, head>> ELSE m[i]]
    ELSE Append(m, <<base, head>>)

DefaultHead_BaseFirst(pullRequestNumber, base) ==
    <<"backport-">> \o base \o <<"-to-", ToString(pullRequestNumber)>>
\* `backport-${pullRequestNumber}-to-${base}`
DefaultHead(pullRequestNumber, base) ==
    <<"backport-", ToString(pullRequestNumber), "-to-">> \o base

RECURSIVE Reduce(_, _, _)
Reduce(names, baseToHead, pullRequestNumber) ==
    IF names = <<>> THEN baseToHead
    ELSE LET matches == labelRegExp(Head(names))
             acc == IF matches = <<>> THEN baseToHead
                    ELSE Put(baseToHead, matches[1],
                             IF Len(matches) = 2 THEN matches[2]
                             ELSE DefaultHead(pullRequestNumber, matches[1]))
         IN Reduce(Tail(names), acc, pullRequestNumber)

getBackportBaseToHead(action, label, labels, pullRequestNumber) ==
    Reduce(getLabelNames(action, label, labels), <<>>, pullRequestNumber)

(***************************************************************************)
(* Commit sequence extractor                                               *)
(***************************************************************************)
\* tokens that are white space; every other token is a run of \S characters
\* or one of the two literal parts of the pattern
WhiteSpace == {" ", "\n"}

\* /^Merge branch '\S+' into \S+/.test(message)
IsMergeMessage(message) ==
    /\ Len(message) >= 4
    /\ message[1] = "Merge branch '"
    /\ message[2] \notin WhiteSpace
    /\ message[3] = "' into "
    /\ message[4] \notin WhiteSpace

getCommitsResult(data) ==
    LET kept == SelectSeq(data, LAMBDA c : ~IsMergeMessage(c.message))
    IN [i \in 1..Len(kept) |-> kept[i].url]

(***************************************************************************)
(* State after construction: the event payload is any payload of the       *)
(* bounded pools, nothing has run yet.                                     *)
(***************************************************************************)
\* the payload has a label property exactly when the action is "labeled",
\* and the label just applied is then one of the labels of the pull request;
\* a pull request carries a label at most once
NoLabel == <<>>
InSeq(x, s) == \E i \in 1..Len(s) : s[i] = x
WellFormed(p) ==
    /\ Injective(p.labels)
    /\ IF p.action = "labeled" THEN InSeq(p.label, p.labels) ELSE p.label = NoLabel

Init ==
    /\ payload \in [action : Actions,
                    label : LabelPool \cup {NoLabel},
                    labels : SeqsUpTo(LabelPool, MaxLabels),
                    merged : BOOLEAN,
                    number : PullNumbers]
    /\ WellFormed(payload)
    /\ pc = "start"
    /\ backportBaseToHead = <<>>
    /\ listed = <<>>
    /\ commits = <<>>
    /\ started = 0
    /\ tpc = <<>>
    /\ fetchOrder = <<>>
    /\ patches = <<>>
    /\ next = <<>>
    /\ err = <<>>
    /\ result = <<>>
    /\ patchFile = Absent
    /\ branches = {}
    /\ log = <<>>
    /\ failed = FALSE

Targets == 1..Len(backportBaseToHead)
Base(t) == backportBaseToHead[t][1]
HeadOf(t) == backportBaseToHead[t][2]

Entry(t, op, arg, ok) == [t |-> t, op |-> op, arg |-> arg, ok |-> ok]
Logged(t, op, arg, ok) == log' = Append(log, Entry(t, op, arg, ok))

perTarget == <<tpc, fetchOrder, patches, next, err, result>>
shared == <<payload, backportBaseToHead, listed, commits>>

(***************************************************************************)
(* backport(): guards and shared setup                                     *)
(***************************************************************************)
\* `if (!merged) return`, getBackportBaseToHead, `if (... .length === 0) return`
IsNoOp_IgnoresMerged(merged, n) == n = 0
\* the two early returns of backport()
IsNoOp(merged, n) == ~merged \/ n = 0

Resolve ==
    /\ pc = "start"
    /\ LET m == getBackportBaseToHead(payload.action, payload.label,
                                      payload.labels, payload.number)
           n == Len(m)
       IN IF IsNoOp(payload.merged, n)
          THEN /\ pc' = "done"
               /\ UNCHANGED <<backportBaseToHead, perTarget>>
          ELSE /\ pc' = "clone"
               /\ backportBaseToHead' = m
               /\ tpc' = [t \in 1..n |-> "idle"]
               /\ fetchOrder' = [t \in 1..n |-> <<>>]
               /\ patches' = [t \in 1..n |-> <<>>]
               /\ next' = [t \in 1..n |-> 1]
               /\ err' = [t \in 1..n |-> None]
               /\ result' = [t \in 1..n |-> None]
    /\ UNCHANGED <<payload, listed, commits, started, patchFile, branches, log,
                   failed>>

AfterSetup(step) ==
    CASE step = "clone" -> "remote"
      [] step = "remote" -> "config.email"
      [] step = "config.email" -> "config.name"
      [] step = "config.name" -> "listCommits"

SetupNext_IgnoreReturnCode(step, ok) == AfterSetup(step)
\* exec rejects on a non-zero exit code; the rejection leaves backport()
SetupNext(step, ok) == IF ok THEN AfterSetup(step) ELSE "thrown"

\* git clone, git remote add botrepo, git config user.email, git config user.name
SetupGit ==
    /\ pc \in {"clone", "remote", "config.email", "config.name"}
    /\ \E ok \in BOOLEAN :
         /\ Logged(0, pc, <<>>, ok)
         /\ pc' = SetupNext(pc, ok)
    /\ UNCHANGED <<shared, started, perTarget, patchFile, branches, failed>>

\* getCommits: `await github.pulls.listCommits(...)`
GetCommits ==
    /\ pc = "listCommits"
    /\ \/ /\ Logged(0, "listCommits", <<>>, FALSE)
          /\ pc' = "thrown"
          /\ UNCHANGED listed
       \/ \E data \in SeqsUpTo(CommitPool, MaxCommits) :
            /\ Injective(data)
            /\ Logged(0, "listCommits", <<>>, TRUE)
            /\ listed' = data
            /\ pc' = "filter"
    /\ UNCHANGED <<payload, backportBaseToHead, commits, started, perTarget,
                   patchFile, branches, failed>>

\* getCommits: `return commits.data.filter(...).map(...)`
FilterCommits ==
    /\ pc = "filter"
    /\ commits' = getCommitsResult(listed)
    /\ listed' = <<>>
    /\ pc' = "loop"
    /\ UNCHANGED <<payload, backportBaseToHead, started, perTarget, patchFile,
                   branches, log, failed>>

(***************************************************************************)
(* backport(): the loop over Object.entries(backportBaseToHead)            *)
(***************************************************************************)
GroupSettled_NoAwait(t) == TRUE
\* `await group(...)`: the loop goes on once the body of target t has settled
GroupSettled(t) == IF t = 0 THEN TRUE ELSE tpc[t] = "done"

\* an iteration starts: backportOnce is called and pMap starts its fetches
StartTarget ==
    /\ pc = "loop"
    /\ started < Len(backportBaseToHead)
    /\ GroupSettled(started)
    /\ started' = started + 1
    /\ tpc' = [tpc EXCEPT ![started + 1] = "pmap"]
    /\ UNCHANGED <<shared, pc, fetchOrder, patches, next, err, result,
                   patchFile, branches, log, failed>>

\* the loop is over: backport() returns, run() returns
LoopEnd ==
    /\ pc = "loop"
    /\ started = Len(backportBaseToHead)
    /\ GroupSettled(started)
    /\ pc' = "done"
    /\ UNCHANGED <<shared, started, perTarget, patchFile, branches, log, failed>>

\* run(): catch (error) { setFailed(error.message) }
RunCatch ==
    /\ \/ pc = "thrown"
       \/ pc = "loop" /\ \E t \in Targets : tpc[t] = "thrown"
    /\ pc' = "done"
    /\ failed' = TRUE
    /\ UNCHANGED <<shared, started, perTarget, patchFile, branches, log>>

(***************************************************************************)
(* backportOnce(): patch fetch                                             *)
(***************************************************************************)
Fetched(t) == {fetchOrder[t][k] : k \in 1..Len(fetchOrder[t])}

pMapResult_CompletionOrder(urls, order) ==
    [i \in 1..Len(urls) |-> PatchOf(urls[order[i]])]
\* pMap keeps the order of its input whatever the completion order
pMapResult(urls, order) == [i \in 1..Len(urls) |-> PatchOf(urls[i])]

PMapReject_InsideTry(t) ==
    /\ tpc' = [tpc EXCEPT ![t] = "abort"]
    /\ err' = [err EXCEPT ![t] = "request"]
    /\ UNCHANGED result
\* `await pMap(...)` stands before the try block: its rejection leaves
\* backportOnce at once, without the catch clause
PMapReject(t) ==
    /\ tpc' = [tpc EXCEPT ![t] = "caught"]
    /\ err' = [err EXCEPT ![t] = "request"]
    /\ result' = [result EXCEPT ![t] = "failed"]

\* one mapCommits request completes; the first failure rejects pMap, outside
\* the try block of backportOnce
PatchFetch(t) ==
    /\ tpc[t] = "pmap"
    /\ \E i \in (1..Len(commits)) \ Fetched(t) : \E ok \in BOOLEAN :
         /\ Logged(t, "request", <<commits[i]>>, ok)
         /\ IF ok
            THEN /\ fetchOrder' = [fetchOrder EXCEPT ![t] = Append(@, i)]
                 /\ UNCHANGED <<tpc, err, result>>
            ELSE /\ PMapReject(t)
                 /\ UNCHANGED fetchOrder
    /\ UNCHANGED <<shared, pc, started, patches, next, patchFile, branches, failed>>

\* every request has completed: `const patches = await pMap(...)`
PMapResolve(t) ==
    /\ tpc[t] = "pmap"
    /\ Fetched(t) = 1..Len(commits)
    /\ patches' = [patches EXCEPT ![t] = pMapResult(commits, fetchOrder[t])]
    /\ tpc' = [tpc EXCEPT ![t] = "fetch"]
    /\ UNCHANGED <<shared, pc, started, fetchOrder, next, err, result,
                   patchFile, branches, log, failed>>

(***************************************************************************)
(* backportOnce(): the try block                                           *)
(***************************************************************************)
Throw_NoAbort(t, step) ==
    /\ tpc' = [tpc EXCEPT ![t] = "caught"]
    /\ err' = [err EXCEPT ![t] = step]
\* an error thrown inside the try block reaches the catch clause
Throw(t, step) ==
    /\ tpc' = [tpc EXCEPT ![t] = "abort"]
    /\ err' = [err EXCEPT ![t] = step]

AfterPatch_SkipsLast(t, k) == IF k >= Len(patches[t]) THEN "push" ELSE "writeFile"
\* position of the `for (const patch of patches)` loop at index k
AfterPatch(t, k) == IF k > Len(patches[t]) THEN "push" ELSE "writeFile"

GitFetch(t) ==
    /\ tpc[t] = "fetch"
    /\ \E ok \in BOOLEAN :
         /\ Logged(t, "fetch", <<"origin">>, ok)
         /\ IF ok THEN tpc' = [tpc EXCEPT ![t] = "checkout"] /\ UNCHANGED err
                  ELSE Throw(t, "fetch")
    /\ UNCHANGED <<shared, pc, started, fetchOrder, patches, next, result,
                   patchFile, branches, failed>>

GitCheckout(t) ==
    /\ tpc[t] = "checkout"
    /\ \E ok \in BOOLEAN :
         /\ Logged(t, "checkout", <<"origin/">> \o Base(t), ok)
         /\ IF ok THEN tpc' = [tpc EXCEPT ![t] = "checkout-b"] /\ UNCHANGED err
                  ELSE Throw(t, "checkout")
    /\ UNCHANGED <<shared, pc, started, fetchOrder, patches, next, result,
                   patchFile, branches, failed>>

\* git checkout -b <head> fails when the branch already exists
GitCheckoutB(t) ==
    /\ tpc[t] = "checkout-b"
    /\ \E ok \in BOOLEAN :
         /\ ok => HeadOf(t) \notin branches
         /\ Logged(t, "checkout-b", HeadOf(t), ok)
         /\ IF ok
            THEN /\ tpc' = [tpc EXCEPT ![t] = AfterPatch(t, next[t])]
                 /\ branches' = branches \cup {HeadOf(t)}
                 /\ UNCHANGED err
            ELSE /\ Throw(t, "checkout-b")
                 /\ UNCHANGED branches
    /\ UNCHANGED <<shared, pc, started, fetchOrder, patches, next, result,
                   patchFile, failed>>

\* fs.writeFile(patchFile, patch): a failed write may leave a truncated file
WriteFile(t) ==
    /\ tpc[t] = "writeFile"
    /\ \/ /\ patchFile' = patches[t][next[t]]
          /\ tpc' = [tpc EXCEPT ![t] = "am"]
          /\ UNCHANGED err
       \/ /\ patchFile' \in {patchFile, Partial}
          /\ Throw(t, "writeFile")
    /\ UNCHANGED <<shared, pc, started, fetchOrder, patches, next, result,
                   branches, log, failed>>

\* git am -3 --ignore-whitespace <patchFile>
GitAm(t) ==
    /\ tpc[t] = "am"
    /\ \E ok \in BOOLEAN :
         /\ Logged(t, "am", patchFile, ok)
         /\ IF ok THEN tpc' = [tpc EXCEPT ![t] = "unlink"] /\ UNCHANGED err
                  ELSE Throw(t, "am")
    /\ UNCHANGED <<shared, pc, started, fetchOrder, patches, next, result,
                   patchFile, branches, failed>>

\* fs.unlink(patchFile), then the next turn of the for loop
Unlink(t) ==
    /\ tpc[t] = "unlink"
    /\ \/ /\ patchFile' = Absent
          /\ next' = [next EXCEPT ![t] = @ + 1]
          /\ tpc' = [tpc EXCEPT ![t] = AfterPatch(t, next[t] + 1)]
          /\ UNCHANGED err
       \/ /\ Throw(t, "unlink")
          /\ UNCHANGED <<patchFile, next>>
    /\ UNCHANGED <<shared, pc, started, fetchOrder, patches, result,
                   branches, log, failed>>

GitPush(t) ==
    /\ tpc[t] = "push"
    /\ \E ok \in BOOLEAN :
         /\ Logged(t, "push", HeadOf(t), ok)
         /\ IF ok THEN tpc' = [tpc EXCEPT ![t] = "create"] /\ UNCHANGED err
                  ELSE Throw(t, "push")
    /\ UNCHANGED <<shared, pc, started, fetchOrder, patches, next, result,
                   patchFile, branches, failed>>

\* github.pulls.create: the last step, backportOnce returns normally
PullsCreate(t) ==
    /\ tpc[t] = "create"
    /\ \E ok \in BOOLEAN :
         /\ Logged(t, "pulls.create", HeadOf(t), ok)
         /\ IF ok
            THEN /\ tpc' = [tpc EXCEPT ![t] = "done"]
                 /\ result' = [result EXCEPT ![t] = "succeeded"]
                 /\ UNCHANGED err
            ELSE /\ Throw(t, "pulls.create")
                 /\ UNCHANGED result
    /\ UNCHANGED <<shared, pc, started, fetchOrder, patches, next,
                   patchFile, branches, failed>>

\* catch (error) { warning(error); await git("am", "--abort"); throw error }
\* a failing abort throws its own error in place of the caught one
GitAmAbort(t) ==
    /\ tpc[t] = "abort"
    /\ \E ok \in BOOLEAN :
         /\ Logged(t, "am--abort", <<>>, ok)
         /\ err' = [err EXCEPT ![t] = IF ok THEN @ ELSE "am--abort"]
    /\ tpc' = [tpc EXCEPT ![t] = "caught"]
    /\ result' = [result EXCEPT ![t] = "failed"]
    /\ UNCHANGED <<shared, pc, started, fetchOrder, patches, next,
                   patchFile, branches, failed>>

(***************************************************************************)
(* backport(): the catch clause of the loop body                           *)
(***************************************************************************)
\* data.html_url of the commit behind an API url
HtmlUrl(commitUrl) == "https://github.com/commit/" \o commitUrl

commitCommands_Reversed(urls) ==
    [i \in 1..Len(urls) |->
       <<"curl -s ", HtmlUrl(urls[Len(urls) + 1 - i]),
         ".patch | git am -3 --ignore-whitespace">>]
\* pMap(commits, apiToPatchUrl): one command per commit, in the order of commits
commitCommands(urls) ==
    [i \in 1..Len(urls) |->
       <<"curl -s ", HtmlUrl(urls[i]), ".patch | git am -3 --ignore-whitespace">>]

\* the lines joined by getFailedBackportCommentBody; a line is a sequence of
\* text pieces, a comment line of the transcript starts with the piece "#";
\* the backquote of the source is written ^
getFailedBackportCommentBody(base, head, errorMessage, cmds) ==
    << <<"The backport to ^">> \o base \o <<"^ failed:">>,
       <<"^^^">>,
       <<errorMessage>>,
       <<"^^^">>,
       <<"Check [the run](", "runUrl", ") for full details">>,
       <<"To backport manually, run these commands in your terminal:">>,
       <<"^^^bash">>,
       <<"#", "Fetch latest updates from GitHub">>,
       <<"git fetch">>,
       <<"#", "Check out the target branch">>,
       <<"git checkout ">> \o base,
       <<"#", "Make sure it's up to date">>,
       <<"git pull">>,
       <<"#", "Check out your branch">>,
       <<"git checkout -b ">> \o head,
       <<"#", "Apply the commits from the PR">> >>
    \o cmds \o
    << <<"#", "Push it to GitHub">>,
       <<"git push --set-upstream origin ">> \o head,
       <<"^^^">>,
       <<"Then, create a pull request where the ^base^ branch is ^">> \o base
         \o <<"^ and the ^compare^/^head^ branch is ^">> \o head \o <<"^.">> >>

ReportNext_IgnoresError(ok) == "post"
\* `await pMap(commits, apiToPatchUrl)`: a rejected request leaves the catch
\* clause of the loop body
ReportNext(ok) == IF ok THEN "post" ELSE "thrown"

\* getFailedBackportCommentBody: one github.request per commit, through pMap
ReportBody(t) ==
    /\ tpc[t] = "caught"
    /\ IF commits = <<>>
       THEN /\ tpc' = [tpc EXCEPT ![t] = "post"]
            /\ UNCHANGED log
       ELSE \E ok \in BOOLEAN :
            /\ Logged(t, "request.html", commits, ok)
            /\ tpc' = [tpc EXCEPT ![t] = ReportNext(ok)]
    /\ UNCHANGED <<shared, pc, started, fetchOrder, patches, next, err, result,
                   patchFile, branches, failed>>

FailedAfterComment_Missing(ok) == failed
\* setFailed(`1 or more backports failed ...`) once the comment is posted
FailedAfterComment(ok) == failed \/ ok

\* issues.createComment, then setFailed
CreateComment(t) ==
    /\ tpc[t] = "post"
    /\ \E ok \in BOOLEAN :
         /\ Logged(t, "createComment",
                   getFailedBackportCommentBody(Base(t), HeadOf(t), err[t],
                                                commitCommands(commits)),
                   ok)
         /\ tpc' = [tpc EXCEPT ![t] = IF ok THEN "done" ELSE "thrown"]
         /\ failed' = FailedAfterComment(ok)
    /\ UNCHANGED <<shared, pc, started, fetchOrder, patches, next, err, result,
                   patchFile, branches>>

Executor(t) ==
    \/ PatchFetch(t) \/ PMapResolve(t)
    \/ GitFetch(t) \/ GitCheckout(t) \/ GitCheckoutB(t)
    \/ WriteFile(t) \/ GitAm(t) \/ Unlink(t)
    \/ GitPush(t) \/ PullsCreate(t) \/ GitAmAbort(t)

Reporter(t) == ReportBody(t) \/ CreateComment(t)

Next ==
    \/ Resolve \/ SetupGit \/ GetCommits \/ FilterCommits
    \/ StartTarget \/ LoopEnd \/ RunCatch
    \/ \E t \in Targets : Executor(t)
    \/ \E t \in Targets : Reporter(t)

Spec == Init /\ [][Next]_vars

TypeOK ==
    /\ pc \in {"start", "clone", "remote", "config.email", "config.name",
               "listCommits", "filter", "loop", "thrown", "done"}
    /\ started \in 0..Len(backportBaseToHead)
    /\ failed \in BOOLEAN

(***************************************************************************)
(* Observations on the log                                                 *)
(***************************************************************************)
GitOps == {"fetch", "checkout", "checkout-b", "am", "am--abort", "push"}
SetupOps == {"clone", "remote", "config.email", "config.name", "listCommits"}

\* indices of the log entries of target t with operation op
At(t, op) == {k \in 1..Len(log) : log[k].t = t /\ log[k].op = op}
OkAt(t, op) == {k \in At(t, op) : log[k].ok}
FailAt(t, op) == {k \in At(t, op) : ~log[k].ok}

\* target t has run operation op / with success / with a failure
Ran(t, op) == \E k \in 1..Len(log) : log[k].t = t /\ log[k].op = op
RanOk(t, op) == \E k \in 1..Len(log) : log[k].t = t /\ log[k].op = op /\ log[k].ok
RanFail(t, op) == \E k \in 1..Len(log) : log[k].t = t /\ log[k].op = op /\ ~log[k].ok

\* the patches handed to `git am` for target t before log index k, in order
AmBefore(t, k, onlyOk) ==
    LET prefix == SubSeq(log, 1, k - 1)
        ams == SelectSeq(prefix, LAMBDA e : e.t = t /\ e.op = "am" /\ (onlyOk => e.ok))
    IN [i \in 1..Len(ams) |-> ams[i].arg]

\* the patches of the commit sequence, in commit order
CommitPatches == [i \in 1..Len(commits) |-> PatchOf(commits[i])]

\* backportOnce of target t has returned or thrown to the loop body
Returned(t) == tpc[t] \in {"caught", "post", "thrown", "done"}
InFlight(t) == tpc[t] \notin {"idle", "thrown", "done"}
SetupFailed == \E k \in 1..Len(log) : log[k].t = 0 /\ ~log[k].ok
AnyTargetFailed == \E t \in Targets : result[t] = "failed"

(***************************************************************************)
(* C1: in a run with two or more targets where the executor failed for     *)
(* some target, the run ends only after every target has been attempted.   *)
(***************************************************************************)
C1_AllTargetsAttempted ==
    (pc = "done" /\ AnyTargetFailed) => \A t \in Targets : result[t] # None

(***************************************************************************)
(* C2: a target's head is pushed only after every patch of the sequence    *)
(* was applied; a proposal is created only after a successful push; when   *)
(* fetch, checkout, branch creation or an apply failed there is neither a  *)
(* push nor a proposal; the executor ends with all six steps done or with  *)
(* a failure before the push completed, or with a failed proposal.         *)
(***************************************************************************)
C2_PushOnlyAfterAllPatches ==
    /\ \A k \in 1..Len(log) :
         /\ log[k].op = "push" => AmBefore(log[k].t, k, TRUE) = CommitPatches
         /\ log[k].op = "pulls.create" =>
              \E j \in 1..(k - 1) :
                log[j].t = log[k].t /\ log[j].op = "push" /\ log[j].ok
         /\ (~log[k].ok /\ log[k].op \in {"request", "fetch", "checkout",
                                          "checkout-b", "am"})
              => ~Ran(log[k].t, "push") /\ ~Ran(log[k].t, "pulls.create")
    /\ \A t \in Targets :
         /\ result[t] = "succeeded"
              => /\ \A op \in {"fetch", "checkout", "checkout-b", "push",
                                "pulls.create"} : RanOk(t, op)
                 /\ AmBefore(t, Len(log) + 1, TRUE) = CommitPatches
         /\ result[t] = "failed"
              => ~RanOk(t, "push") \/ RanFail(t, "pulls.create")

C2_Witness ==
    \E t \in Targets :
      /\ Len(commits) = 2
      /\ result[t] = "succeeded"
      /\ OkAt(t, "push") # {}

(***************************************************************************)
(* C3: when applying patch i fails, git am --abort is run before the       *)
(* error reaches the caller, and no later patch is applied or attempted.   *)
(***************************************************************************)
C3_AbortOnApplyFailure ==
    \A k \in 1..Len(log) :
      (log[k].op = "am" /\ ~log[k].ok) =>
        LET t == log[k].t
        IN /\ \A j \in (k + 1)..Len(log) :
                (log[j].t = t /\ log[j].op \in GitOps \cup {"pulls.create"})
                  => log[j].op = "am--abort"
           /\ Returned(t) =>
                \E j \in (k + 1)..Len(log) :
                  log[j].t = t /\ log[j].op = "am--abort"

C3_Witness ==
    \E t \in Targets :
      /\ Returned(t)
      /\ Len(commits) = 2
      /\ \E k \in FailAt(t, "am") : log[k].arg = PatchOf(commits[1])

(***************************************************************************)
(* C4: when the run has terminated, its status is failed exactly when the  *)
(* executor failed for at least one target.                                *)
(***************************************************************************)
C4_FailedIffTargetFailed ==
    pc = "done" => (failed <=> AnyTargetFailed)

\* C4 as amended: when the run has terminated, its status is failed exactly
\* when the executor failed for at least one target or a shared setup step
\* failed.
C4_FailedIffTargetOrSetupFailed ==
    pc = "done" => (failed <=> (AnyTargetFailed \/ SetupFailed))

C4_Witness ==
    /\ pc = "done"
    /\ failed
    /\ \E t, u \in Targets :
         /\ result[t] = "failed"
         /\ result[u] = "succeeded"
         /\ OkAt(u, "pulls.create") # {}

(***************************************************************************)
(* C5: for every target the k-th patch handed to git am is the patch of    *)
(* the k-th commit, whatever order the patch fetches completed in.         *)
(***************************************************************************)
C5_AppliedInCommitOrder ==
    \A t \in Targets :
      LET ams == AmBefore(t, Len(log) + 1, FALSE)
      IN /\ Len(ams) <= Len(commits)
         /\ \A k \in 1..Len(ams) : ams[k] = PatchOf(commits[k])

C5_Witness ==
    \E t \in Targets :
      /\ fetchOrder[t] = <<2, 1>>
      /\ AmBefore(t, Len(log) + 1, TRUE) = CommitPatches

(***************************************************************************)
(* C6: when the fetch of one commit's patch fails, no patch is applied     *)
(* and no git command and no proposal creation is run for that target.     *)
(***************************************************************************)
C6_PatchFetchAtomic ==
    \A k \in 1..Len(log) :
      (log[k].op = "request" /\ ~log[k].ok) =>
        LET t == log[k].t
        IN /\ \A j \in 1..Len(log) :
                log[j].t = t => log[j].op \notin GitOps \cup {"pulls.create"}
           /\ patches[t] = <<>>

C6_Witness ==
    \E t \in Targets :
      /\ OkAt(t, "request") # {}
      /\ FailAt(t, "request") # {}
      /\ tpc[t] = "done"

(***************************************************************************)
(* C7: when merged is false or the tag parser returns an empty mapping,    *)
(* the run issues no git command and no host API call and ends             *)
(* successfully.                                                           *)
(***************************************************************************)
NoOpPayload ==
    \/ ~payload.merged
    \/ getBackportBaseToHead(payload.action, payload.label, payload.labels,
                             payload.number) = <<>>

C7_NoOpHasNoEffect ==
    NoOpPayload =>
      /\ log = <<>>
      /\ ~failed
      /\ pc \in {"start", "done"}
      /\ patchFile = Absent /\ branches = {}

C7_Witness ==
    /\ pc = "done"
    /\ payload.merged
    /\ payload.action = "closed"
    /\ payload.labels # <<>>
    /\ NoOpPayload

(***************************************************************************)
(* C8: when a shared setup step fails, the run fails and the executor is   *)
(* run for no target: no branch is created or pushed, no proposal opened.  *)
(***************************************************************************)
C8_SetupFailureIsFatal ==
    SetupFailed =>
      /\ started = 0
      /\ \A k \in 1..Len(log) : log[k].t = 0
      /\ ~log[Len(log)].ok
      /\ branches = {}
      /\ pc \in {"thrown", "done"}
      /\ pc = "done" => failed

C8_Witness ==
    /\ pc = "done"
    /\ failed
    /\ FailAt(0, "listCommits") # {}

(***************************************************************************)
(* C9: once the executor of a target has returned, by success or by any    *)
(* failure, the scratch patch file has been deleted.                       *)
(***************************************************************************)
C9_ScratchFileDeleted ==
    \A t \in Targets : (Returned(t) /\ started = t) => patchFile = Absent

(***************************************************************************)
(* C10: at most one target's executor or failure reporting is in flight,   *)
(* and a target starts only after the previous one has finished.           *)
(***************************************************************************)
C10_Serialized ==
    /\ Cardinality({t \in Targets : InFlight(t)}) <= 1
    /\ \A t \in Targets : (t > 1 /\ tpc[t] # "idle") => tpc[t - 1] = "done"

C10_Witness ==
    /\ Len(backportBaseToHead) = 2
    /\ tpc[2] = "am"
    /\ result[1] = "failed"

(***************************************************************************)
(* C11: building the failure comment performs no host request and cannot   *)
(* fail because of the network.                                            *)
(***************************************************************************)
C11_ReporterIsPure ==
    \A t \in Targets :
      /\ At(t, "request.html") = {}
      /\ tpc[t] = "thrown" => FailAt(t, "createComment") # {}

\* C11 as amended: building the failure comment issues read-only host
\* requests, one per commit (none for an empty commit sequence), and fails
\* exactly when such a request fails; it has no other effect.
C11_ReporterOnlyReadsHost ==
    [][\A t \in Targets :
         (tpc[t] = "caught" /\ tpc'[t] # "caught") =>
           /\ UNCHANGED <<shared, pc, started, fetchOrder, patches, next, err,
                          result, patchFile, branches, failed>>
           /\ \/ /\ commits = <<>>
                 /\ log' = log
                 /\ tpc'[t] = "post"
              \/ /\ commits # <<>>
                 /\ Len(log') = Len(log) + 1
                 /\ SubSeq(log', 1, Len(log)) = log
                 /\ log'[Len(log')].t = t
                 /\ log'[Len(log')].op = "request.html"
                 /\ tpc'[t] = IF log'[Len(log')].ok THEN "post" ELSE "thrown"]_vars

C11_Witness ==
    \E t \in Targets :
      /\ tpc[t] = "thrown"
      /\ FailAt(t, "request.html") # {}
      /\ At(t, "createComment") = {}

(***************************************************************************)
(* The tag parser on its own: the payload is drawn from a wider pool of    *)
(* labels and the first step of backport() applies the parser to it.       *)
(***************************************************************************)
ParserLabelPool ==
    { <<"backport", " ", "a">>,
      <<"backport", " ", "b">>,
      <<"backport", " ", "a", " ", "x">>,
      <<"backport", " ", "a", " ", "y">>,
      <<"backport", " ", "b", " ", "x">>,
      <<"backport", " ", "release-3">>,
      <<"bug">>,
      <<"backport">>,
      <<"backport", " ">>,
      <<"backport", " ", " ", "a">>,
      <<"backport", " ", "a", " ">>,
      <<"backport", " ", "a", " ", "x", " ", "y">>,
      <<" ", "backport", " ", "a">>,
      <<"Backport", " ", "a">> }

ParserPullNumbers == {7, 42, 105}

InitParser ==
    /\ payload \in [action : Actions,
                    label : ParserLabelPool \cup {NoLabel},
                    labels : SeqsUpTo(ParserLabelPool, MaxLabels),
                    merged : BOOLEAN,
                    number : ParserPullNumbers]
    /\ WellFormed(payload)
    /\ pc = "start"
    /\ backportBaseToHead = <<>>
    /\ listed = <<>>
    /\ commits = <<>>
    /\ started = 0
    /\ tpc = <<>>
    /\ fetchOrder = <<>>
    /\ patches = <<>>
    /\ next = <<>>
    /\ err = <<>>
    /\ result = <<>>
    /\ patchFile = Absent
    /\ branches = {}
    /\ log = <<>>
    /\ failed = FALSE

NextParser == Resolve

SpecParser == InitParser /\ [][NextParser]_vars

\* the labels of a merged payload have been parsed
Parsed == pc # "start" /\ payload.merged

\* a label written out: `backport <base>` and `backport <base> <head>`
Word(w) == w # <<>> /\ \A i \in 1..Len(w) : w[i] # " "
Pieces(l) == {SubSeq(l, i, j) : i \in 1..Len(l), j \in 1..Len(l)}
BareTag(l, b) == Word(b) /\ l = <<"backport", " ">> \o b
FullTag(l, b, h) == Word(b) /\ Word(h) /\ l = <<"backport", " ">> \o b \o <<" ">> \o h
TagFor(l, b) == BareTag(l, b) \/ \E h \in Pieces(l) : FullTag(l, b, h)
BasesOf(l) == {b \in Pieces(l) : TagFor(l, b)}

\* decimal digits of a natural number
Digit(d) ==
    CASE d = 0 -> "0" [] d = 1 -> "1" [] d = 2 -> "2" [] d = 3 -> "3"
      [] d = 4 -> "4" [] d = 5 -> "5" [] d = 6 -> "6" [] d = 7 -> "7"
      [] d = 8 -> "8" [] d = 9 -> "9"
RECURSIVE Decimal(_)
Decimal(n) == IF n < 10 THEN Digit(n) ELSE Decimal(n \div 10) \o Digit(n % 10)

(***************************************************************************)
(* C12: the mapping has an entry for a base exactly when some candidate    *)
(* label is a tag for that base, and the head of the entry is the head     *)
(* given by the last such label in list order; other labels add nothing.   *)
(***************************************************************************)
C12_EntryPerMatchedBaseLastWins ==
    Parsed =>
      LET names == getLabelNames(payload.action, payload.label, payload.labels)
          m == backportBaseToHead
      IN /\ \A i \in 1..Len(names) : \A b \in BasesOf(names[i]) : HasBase(m, b)
         /\ \A e \in 1..Len(m) :
              LET b == m[e][1]
                  hits == {i \in 1..Len(names) : TagFor(names[i], b)}
              IN /\ hits # {}
                 /\ LET last == CHOOSE i \in hits : \A j \in hits : j <= i
                    IN IF BareTag(names[last], b)
                       THEN m[e][2] = DefaultHead(payload.number, b)
                       ELSE FullTag(names[last], b, m[e][2])

C12_Witness ==
    /\ Parsed
    /\ payload.action = "closed"
    /\ Len(payload.labels) = 2
    /\ FullTag(payload.labels[1], <<"a">>, <<"x">>)
    /\ FullTag(payload.labels[2], <<"a">>, <<"y">>)
    /\ backportBaseToHead = << <<(<<"a">>), (<<"y">>)>> >>

(***************************************************************************)
(* C13: for `closed` every label of the change is a candidate, for         *)
(* `labeled` only the label just applied is, and for any other action      *)
(* there is no candidate: the mapping is empty and the run is a no-op.     *)
(***************************************************************************)
C13_CandidatesByAction ==
    Parsed =>
      LET m == backportBaseToHead
      IN CASE payload.action = "closed" ->
                /\ \A i \in 1..Len(payload.labels) :
                     \A b \in BasesOf(payload.labels[i]) : HasBase(m, b)
                /\ \A e \in 1..Len(m) :
                     \E i \in 1..Len(payload.labels) : TagFor(payload.labels[i], m[e][1])
           [] payload.action = "labeled" ->
                /\ Len(m) = Cardinality(BasesOf(payload.label))
                /\ \A e \in 1..Len(m) : TagFor(payload.label, m[e][1])
           [] OTHER ->
                /\ m = <<>>
                /\ pc = "done"
                /\ log = <<>>

C13_Witness ==
    /\ Parsed
    /\ payload.action = "labeled"
    /\ BareTag(payload.label, <<"b">>)
    /\ \E i \in 1..Len(payload.labels) : TagFor(payload.labels[i], <<"a">>)
    /\ Len(backportBaseToHead) = 1
    /\ backportBaseToHead[1][1] = <<"b">>

(***************************************************************************)
(* C16: a tag without a head gets the head backport-<id>-to-<base>, e.g.   *)
(* backport-42-to-release-3; a tag with a head keeps that head unchanged.  *)
(***************************************************************************)
C16_DefaultHeadName ==
    (Parsed /\ payload.action = "labeled") =>
      LET l == payload.label
          m == backportBaseToHead
      IN /\ \A b \in Pieces(l) :
              BareTag(l, b) =>
                m = << <<b, <<"backport-", Decimal(payload.number), "-to-">> \o b>> >>
         /\ \A b \in Pieces(l) : \A h \in Pieces(l) :
              FullTag(l, b, h) => m = << <<b, h>> >>
         /\ (payload.number = 42 /\ l = <<"backport", " ", "release-3">>)
              => m[1][2] = <<"backport-", "42", "-to-", "release-3">>

C16_Witness ==
    /\ Parsed
    /\ payload.action = "labeled"
    /\ payload.number = 42
    /\ payload.label = <<"backport", " ", "release-3">>
    /\ Len(backportBaseToHead) = 1

(***************************************************************************)
(* C20: within one run the heads of the mapping are pairwise distinct.     *)
(***************************************************************************)
C20_HeadsDistinct ==
    \A t, u \in Targets : HeadOf(t) = HeadOf(u) => t = u

\* C20 as amended: within one run the bases of the mapping are pairwise
\* distinct; two targets with different bases may have the same head.
C20_BasesDistinct ==
    \A t, u \in Targets : Base(t) = Base(u) => t = u

C20_Witness ==
    /\ Parsed
    /\ Len(backportBaseToHead) = 2
    /\ HeadOf(1) = HeadOf(2)
    /\ Base(1) # Base(2)

(***************************************************************************)
(* The commit sequence extractor on its own: the answer of listCommits is  *)
(* drawn from a wider pool of commit messages and getCommits filters it.   *)
(***************************************************************************)
MergeMessageExtra ==
    <<"Merge branch '", "foo", "' into ", "bar", " ", "extra", " ", "text">>

ExtractorCommitPool ==
    { [url |-> "c1", message |-> <<"fix">>],
      [url |-> "c2", message |-> <<"feat">>],
      [url |-> "c3", message |-> MergeMessage],
      [url |-> "c4", message |-> MergeMessageExtra],
      [url |-> "c5", message |-> <<"Merge branch '", "foo", "' into ">>],
      [url |-> "c6", message |-> <<"Revert", " ", "Merge branch '", "foo", "' into ", "bar">>],
      [url |-> "c7", message |-> <<"Merge branch '", " ", "' into ", "bar">>],
      [url |-> "c8", message |-> <<"Merge", " ", "pull", " ", "request">>],
      [url |-> "c9", message |-> <<"Merge branch '", "foo", "' into ", "bar", "\n", "Conflicts">>] }

\* a merged pull request with one backport label, set up as far as the
\* answer of listCommits
ExtractorPayload ==
    [action |-> "closed", label |-> NoLabel,
     labels |-> << <<"backport", " ", "a">> >>, merged |-> TRUE, number |-> 42]

InitExtractor ==
    /\ payload = ExtractorPayload
    /\ pc = "filter"
    /\ backportBaseToHead =
         getBackportBaseToHead(payload.action, payload.label, payload.labels,
                               payload.number)
    /\ listed \in SeqsUpTo(ExtractorCommitPool, MaxCommits)
    /\ Injective(listed)
    /\ commits = <<>>
    /\ started = 0
    /\ tpc = <<"idle">>
    /\ fetchOrder = << <<>> >>
    /\ patches = << <<>> >>
    /\ next = <<1>>
    /\ err = <<None>>
    /\ result = <<None>>
    /\ patchFile = Absent
    /\ branches = {}
    /\ log = [k \in 1..5 |->
                Entry(0, <<"clone", "remote", "config.email", "config.name",
                           "listCommits">>[k], <<>>, TRUE)]
    /\ failed = FALSE

NextExtractor == FilterCommits

SpecExtractor == InitExtractor /\ [][NextExtractor]_vars

Urls(s) == {s[i] : i \in 1..Len(s)}

\* s keeps the relative order that its elements have in the listing
InListedOrder(s, listing) ==
    \A i, j \in 1..Len(s) :
      i < j => \E a, b \in 1..Len(listing) :
                 a < b /\ listing[a].url = s[i] /\ listing[b].url = s[j]

(***************************************************************************)
(* C14: a commit whose message is exactly "Merge branch 'foo' into bar"    *)
(* is left out of the commit sequence, a commit whose message is           *)
(* "Merge branch 'foo' into bar extra text" is kept, and the kept commits  *)
(* keep their relative order.                                              *)
(***************************************************************************)
C14_MergeCommitFilter ==
    [][(pc = "filter" /\ pc' # "filter") =>
         /\ \A i \in 1..Len(listed) :
              /\ listed[i].message = MergeMessage => listed[i].url \notin Urls(commits')
              /\ listed[i].message = MergeMessageExtra => listed[i].url \in Urls(commits')
         /\ Urls(commits') \subseteq {listed[i].url : i \in 1..Len(listed)}
         /\ InListedOrder(commits', listed)]_vars

(***************************************************************************)
(* C15: the failure comment of a target contains the base, the head and    *)
(* the error message, and the commands of its transcript come in the       *)
(* order fetch, checkout of the base, creation of the head branch, one     *)
(* apply per commit in commit order, push of the head.                     *)
(***************************************************************************)
\* line has the pieces of part next to each other
Contains(line, part) ==
    \E i \in 0..(Len(line) - Len(part)) : SubSeq(line, i + 1, i + Len(part)) = part

\* the command lines between ^^^bash and the closing fence
Transcript(body) ==
    LET open == CHOOSE i \in 1..Len(body) : body[i] = <<"^^^bash">>
        close == CHOOSE j \in (open + 1)..Len(body) :
                   /\ body[j] = <<"^^^">>
                   /\ \A k \in (open + 1)..(j - 1) : body[k] # <<"^^^">>
        inside == SubSeq(body, open + 1, close - 1)
    IN SelectSeq(inside, LAMBDA l : l[1] # "#")

C15_CommentContent ==
    \A t \in Targets : \A k \in At(t, "createComment") :
      LET body == log[k].arg
          cmds == SelectSeq(Transcript(body), LAMBDA l : l # <<"git pull">>)
          n == Len(commits)
      IN /\ \E i \in 1..Len(body) : Contains(body[i], Base(t))
         /\ \E i \in 1..Len(body) : Contains(body[i], HeadOf(t))
         /\ \E i \in 1..Len(body) : Contains(body[i], <<err[t]>>)
         /\ Len(cmds) = n + 4
         /\ cmds[1] = <<"git fetch">>
         /\ cmds[2] = <<"git checkout ">> \o Base(t)
         /\ cmds[3] = <<"git checkout -b ">> \o HeadOf(t)
         /\ \A c \in 1..n :
              /\ Contains(cmds[3 + c], <<HtmlUrl(commits[c])>>)
              /\ \E i \in 1..Len(cmds[3 + c]) :
                   cmds[3 + c][i] = ".patch | git am -3 --ignore-whitespace"
         /\ cmds[n + 4] = <<"git push --set-upstream origin ">> \o HeadOf(t)

C15_Witness ==
    \E t \in Targets :
      /\ OkAt(t, "createComment") # {}
      /\ Len(commits) = 2
      /\ err[t] = "am"

(***************************************************************************)
(* C17: when the run has ended, every attempted target has exactly one     *)
(* outcome: a failed target has exactly one failure comment and the run    *)
(* is marked failed, a succeeded target has its proposal and no comment.   *)
(***************************************************************************)
C17_OneOutcomePerTarget ==
    pc = "done" =>
      \A t \in Targets :
        /\ result[t] = "failed" =>
             /\ Cardinality(OkAt(t, "createComment")) = 1
             /\ OkAt(t, "pulls.create") = {}
             /\ failed
        /\ result[t] = "succeeded" =>
             /\ OkAt(t, "pulls.create") # {}
             /\ At(t, "createComment") = {}

(***************************************************************************)
(* C18: the error that reaches the loop body is the error of the executor  *)
(* step that failed first; the abort of the patch application never        *)
(* replaces it.                                                            *)
(***************************************************************************)
ExecutorOps ==
    {"request", "fetch", "checkout", "checkout-b", "am", "push", "pulls.create"}

C18_FirstErrorReachesCaller ==
    \A t \in Targets :
      Returned(t) =>
        LET fails == {k \in 1..Len(log) :
                        log[k].t = t /\ ~log[k].ok /\ log[k].op \in ExecutorOps}
        IN /\ err[t] # "am--abort"
           /\ fails # {} =>
                err[t] = log[CHOOSE k \in fails : \A j \in fails : k <= j].op

(***************************************************************************)
(* C19: when reporting the failure of one target fails, the executor is    *)
(* still run for every remaining target before the run ends.               *)
(***************************************************************************)
C19_ReportFailureDoesNotStopRun ==
    pc = "done" =>
      \A t \in Targets :
        tpc[t] = "thrown" => \A u \in Targets : u > t => result[u] # None

====
